---- MODULE Spec2Model ----
(***************************************************************************)
(* Permission derivation (useUnifiedPermissions), its legacy facade        *)
(* (usePermissions, useWorkOrderPermissions) and the create-work-order     *)
(* mutation (useCreateWorkOrderEnhanced) of fleet-beacon-hq.               *)
(*                                                                         *)
(* JavaScript values are encoded as follows.  undefined and null are the   *)
(* strings Undefined and NullValue; a string is itself.  An object that    *)
(* may be null/undefined is a record with a tag field (isNull, defined),   *)
(* so that the model never compares a record with a string.                *)
(***************************************************************************)
EXTENDS Integers, Sequences, FiniteSets, TLC

\* ------------------------------------------------------------------ bounds
NumTeams == 2
MaxMutations == 2

\* ------------------------------------------------------- JavaScript values
Undefined == "<undefined>"
NullValue == "<null>"

\* JavaScript truthiness of a string | null | undefined value, as used by
\* `x ? a : b` and `x || y`.
Truthy(v) == v \notin {Undefined, NullValue, ""}

\* ------------------------------------------------------------------ domains
TeamIds == {"team-" \o ToString(i) : i \in 1..NumTeams}
\* every string a caller can pass as a team id: real ids and the empty string
StringIds == TeamIds \cup {""}
\* equipmentTeamId?: string / teamId?: string
OptTeamIds == StringIds \cup {Undefined}
\* WorkOrder.team_id: string | null (| undefined)
WorkOrderTeamIds == StringIds \cup {NullValue, Undefined}

Roles == {"owner", "admin", "member", "viewer"}
\* the userRole field of the current organization; it may be missing
UserRoles == Roles \cup {Undefined}

OrganizationId == "org-1"
NullOrganization == [isNull |-> TRUE]
Organizations ==
  {NullOrganization} \cup
  {[isNull |-> FALSE, id |-> OrganizationId, userRole |-> r] : r \in UserRoles}

NullContext == [isNull |-> TRUE]

\* workOrder?: WorkOrder -- only team_id is ever read
NoWorkOrder == [defined |-> FALSE]
WorkOrderArgs ==
  {NoWorkOrder} \cup {[defined |-> TRUE, team_id |-> t] : t \in WorkOrderTeamIds}

\* roles: string | string[]
RolesArgs ==
  {[isArray |-> FALSE, item |-> r] : r \in Roles} \cup
  {[isArray |-> TRUE, items |-> s] : s \in SUBSET Roles}

NoCall == [hook |-> "none", method |-> "none"]

VARIABLES
  \* ---- the session (useSession), as seen by the current render
  currentOrganization,   \* getCurrentOrganization()
  hasTeamAccess,         \* hasTeamAccess(teamId), a function of the team id
  canManageTeam,         \* canManageTeam(teamId), a function of the team id
  \* ---- what useUnifiedPermissions computed in the current render
  context,               \* PermissionContext | null
  organization,          \* organization flags
  equipment,             \* equipment aggregates (canViewAll, canCreateAny)
  workOrders,            \* work order aggregates
  teams,                 \* team aggregates
  \* ---- the latest call made on the objects of the current render
  lastCall,
  \* ---- useCreateWorkOrderEnhanced
  currentOrg,            \* the organization captured by the hook's render
  pc,                    \* position of the mutation in flight
  workOrderData,         \* the mutation's variables
  mutationOrg,           \* currentOrg as closed over by the running mutationFn
  userData,              \* result of supabase.auth.getUser()
  teamId,                \* let teamId
  assigneeId,            \* let assigneeId
  insertResult,          \* { data, error } of the insert
  thrown,                \* the error mutationFn threw, or NullValue
  work_orders,           \* rows of the work_orders table
  effects,               \* observable effects of the mutation in flight, in order
  mutationData,          \* useMutation's data (the created row), or NullValue
  nMutations             \* mutations started so far

permVars ==
  <<currentOrganization, hasTeamAccess, canManageTeam, context, organization,
    equipment, workOrders, teams, lastCall>>
createVars ==
  <<currentOrg, pc, workOrderData, mutationOrg, userData, teamId, assigneeId,
    insertResult, thrown, work_orders, effects, mutationData, nMutations>>
vars == <<permVars, createVars>>

\* ===================================================== useUnifiedPermissions

\* const roleArray = Array.isArray(roles) ? roles : [roles]
roleArray(roles) == IF roles.isArray THEN roles.items ELSE {roles.item}

hasRole(roles) ==
  IF context.isNull THEN FALSE
  ELSE context.userRole \in roleArray(roles)

\* mutant: the owner role is forgotten
isOrgAdmin_adminOnly == hasRole([isArray |-> TRUE, items |-> {"admin"}])

isOrgAdmin == hasRole([isArray |-> TRUE, items |-> {"owner", "admin"}])
isOrgMember == hasRole([isArray |-> TRUE, items |-> {"owner", "admin", "member"}])

isTeamMember(t) == hasTeamAccess[t]
isTeamManager(t) == canManageTeam[t]

\* workOrder?.team_id
WorkOrderTeamId(workOrder) ==
  IF workOrder.defined THEN workOrder.team_id ELSE Undefined

\* mutant: the `if (!context)` guard is missing
equipment_getPermissions_noGuard(equipmentTeamId) ==
  [canView |-> isOrgMember \/
               (IF Truthy(equipmentTeamId) THEN isTeamMember(equipmentTeamId) ELSE FALSE),
   canCreate |-> isOrgAdmin,
   canEdit |-> isOrgAdmin \/
               (IF Truthy(equipmentTeamId) THEN isTeamManager(equipmentTeamId) ELSE FALSE),
   canDelete |-> isOrgAdmin]

equipment_getPermissions(equipmentTeamId) ==
  IF context.isNull
  THEN [canView |-> FALSE, canCreate |-> FALSE, canEdit |-> FALSE,
        canDelete |-> FALSE, canAddNotes |-> FALSE, canAddImages |-> FALSE]
  ELSE [canView |-> isOrgMember \/
                    (IF Truthy(equipmentTeamId) THEN isTeamMember(equipmentTeamId) ELSE FALSE),
        canCreate |-> isOrgAdmin,
        canEdit |-> isOrgAdmin \/
                    (IF Truthy(equipmentTeamId) THEN isTeamManager(equipmentTeamId) ELSE FALSE),
        canDelete |-> isOrgAdmin]

\* mutant: canChangeStatus is computed like canEdit, from isTeamManager
workOrders_getPermissions_statusByManager(workOrder) ==
  IF context.isNull
  THEN [canView |-> FALSE, canCreate |-> FALSE, canEdit |-> FALSE,
        canDelete |-> FALSE, canAssign |-> FALSE, canChangeStatus |-> FALSE,
        canAddNotes |-> FALSE, canAddImages |-> FALSE]
  ELSE LET team_id == WorkOrderTeamId(workOrder)
           member == IF Truthy(team_id) THEN isTeamMember(team_id) ELSE FALSE
           manager == IF Truthy(team_id) THEN isTeamManager(team_id) ELSE FALSE
       IN [canView |-> isOrgMember \/ member,
           canCreate |-> isOrgMember,
           canEdit |-> isOrgAdmin \/ manager,
           canDelete |-> isOrgAdmin,
           canAssign |-> isOrgAdmin \/ manager,
           canChangeStatus |-> isOrgAdmin \/ manager,
           canAddNotes |-> isOrgMember \/ member,
           canAddImages |-> isOrgMember \/ member]

workOrders_getPermissions(workOrder) ==
  IF context.isNull
  THEN [canView |-> FALSE, canCreate |-> FALSE, canEdit |-> FALSE,
        canDelete |-> FALSE, canAssign |-> FALSE, canChangeStatus |-> FALSE,
        canAddNotes |-> FALSE, canAddImages |-> FALSE]
  ELSE LET team_id == WorkOrderTeamId(workOrder)
           member == IF Truthy(team_id) THEN isTeamMember(team_id) ELSE FALSE
           manager == IF Truthy(team_id) THEN isTeamManager(team_id) ELSE FALSE
       IN [canView |-> isOrgMember \/ member,
           canCreate |-> isOrgMember,
           canEdit |-> isOrgAdmin \/ manager,
           canDelete |-> isOrgAdmin,
           canAssign |-> isOrgAdmin \/ manager,
           canChangeStatus |-> isOrgAdmin \/ member,
           canAddNotes |-> isOrgMember \/ member,
           canAddImages |-> isOrgMember \/ member]

\* mutant: canEditDueDate is left to admins and managers
workOrders_getDetailedPermissions_dueDateByManager(workOrder) ==
  IF currentOrganization.isNull
  THEN [canEdit |-> FALSE, canEditPriority |-> FALSE, canEditAssignment |-> FALSE,
        canEditDueDate |-> FALSE, canEditDescription |-> FALSE,
        canChangeStatus |-> FALSE, canAddNotes |-> FALSE, canAddImages |-> FALSE]
  ELSE LET team_id == WorkOrderTeamId(workOrder)
           isOrgAdminRole == currentOrganization.userRole \in {"owner", "admin"}
           isTeamManagerRole == IF Truthy(team_id) THEN canManageTeam[team_id] ELSE FALSE
           hasWorkOrderAccess == IF Truthy(team_id) THEN hasTeamAccess[team_id] ELSE FALSE
       IN [canEdit |-> isOrgAdminRole \/ isTeamManagerRole,
           canEditPriority |-> isOrgAdminRole \/ isTeamManagerRole,
           canEditAssignment |-> isOrgAdminRole \/ isTeamManagerRole,
           canEditDueDate |-> isOrgAdminRole \/ isTeamManagerRole,
           canEditDescription |-> isOrgAdminRole \/ isTeamManagerRole \/ hasWorkOrderAccess,
           canChangeStatus |-> isOrgAdminRole \/ isTeamManagerRole \/ hasWorkOrderAccess,
           canAddNotes |-> isOrgAdminRole \/ isTeamManagerRole \/ hasWorkOrderAccess,
           canAddImages |-> isOrgAdminRole \/ isTeamManagerRole \/ hasWorkOrderAccess]

workOrders_getDetailedPermissions(workOrder) ==
  IF currentOrganization.isNull
  THEN [canEdit |-> FALSE, canEditPriority |-> FALSE, canEditAssignment |-> FALSE,
        canEditDueDate |-> FALSE, canEditDescription |-> FALSE,
        canChangeStatus |-> FALSE, canAddNotes |-> FALSE, canAddImages |-> FALSE]
  ELSE LET team_id == WorkOrderTeamId(workOrder)
           isOrgAdminRole == currentOrganization.userRole \in {"owner", "admin"}
           isTeamManagerRole == IF Truthy(team_id) THEN canManageTeam[team_id] ELSE FALSE
           hasWorkOrderAccess == IF Truthy(team_id) THEN hasTeamAccess[team_id] ELSE FALSE
       IN [canEdit |-> isOrgAdminRole \/ isTeamManagerRole,
           canEditPriority |-> isOrgAdminRole \/ isTeamManagerRole,
           canEditAssignment |-> isOrgAdminRole \/ isTeamManagerRole,
           canEditDueDate |-> isOrgAdminRole \/ isTeamManagerRole \/ hasWorkOrderAccess,
           canEditDescription |-> isOrgAdminRole \/ isTeamManagerRole \/ hasWorkOrderAccess,
           canChangeStatus |-> isOrgAdminRole \/ isTeamManagerRole \/ hasWorkOrderAccess,
           canAddNotes |-> isOrgAdminRole \/ isTeamManagerRole \/ hasWorkOrderAccess,
           canAddImages |-> isOrgAdminRole \/ isTeamManagerRole \/ hasWorkOrderAccess]

\* mutant: canEdit is granted to team members instead of team managers
teams_getPermissions_editByMember(t) ==
  IF context.isNull
  THEN [canView |-> FALSE, canCreate |-> FALSE, canEdit |-> FALSE,
        canDelete |-> FALSE, canAddNotes |-> FALSE, canAddImages |-> FALSE]
  ELSE [canView |-> isOrgMember \/ (IF Truthy(t) THEN isTeamMember(t) ELSE FALSE),
        canCreate |-> isOrgAdmin,
        canEdit |-> isOrgAdmin \/ (IF Truthy(t) THEN isTeamMember(t) ELSE FALSE),
        canDelete |-> isOrgAdmin]

teams_getPermissions(t) ==
  IF context.isNull
  THEN [canView |-> FALSE, canCreate |-> FALSE, canEdit |-> FALSE,
        canDelete |-> FALSE, canAddNotes |-> FALSE, canAddImages |-> FALSE]
  ELSE [canView |-> isOrgMember \/ (IF Truthy(t) THEN isTeamMember(t) ELSE FALSE),
        canCreate |-> isOrgAdmin,
        canEdit |-> isOrgAdmin \/ (IF Truthy(t) THEN isTeamManager(t) ELSE FALSE),
        canDelete |-> isOrgAdmin]

\* The context object built by a render.  userId is a fixed placeholder and
\* userTeamIds is carried along; no decision reads either of them.
PermissionContext(org) ==
  IF org.isNull THEN NullContext
  ELSE [isNull |-> FALSE,
        organizationId |-> org.id,
        userRole |-> IF Truthy(org.userRole) THEN org.userRole ELSE "viewer",
        userId |-> "current-user-id"]

organization_flags ==
  [canManage |-> isOrgAdmin,
   canInviteMembers |-> isOrgAdmin,
   canCreateTeams |-> isOrgAdmin,
   canViewBilling |-> hasRole([isArray |-> TRUE, items |-> {"owner", "admin"}])]

equipment_aggregates == [canViewAll |-> isOrgMember, canCreateAny |-> isOrgAdmin]

workOrders_aggregates ==
  [canViewAll |-> isOrgAdmin, canCreateAny |-> isOrgMember, canAssignAny |-> isOrgAdmin]

teams_aggregates ==
  [canViewAll |-> isOrgAdmin, canCreateAny |-> isOrgAdmin, canManageAny |-> isOrgAdmin]

\* One render of the hook: it reads the session and builds every value the
\* hook returns.  The closures of an earlier render are gone with it.
useUnifiedPermissions(org, access, manage) ==
  /\ currentOrganization' = org
  /\ hasTeamAccess' = access
  /\ canManageTeam' = manage
  /\ context' = PermissionContext(org)
  /\ organization' = organization_flags'
  /\ equipment' = equipment_aggregates'
  /\ workOrders' = workOrders_aggregates'
  /\ teams' = teams_aggregates'
  /\ lastCall' = NoCall

\* The session changes and the hook renders again: another organization (or
\* none) is selected, or the user's access to or management of one team changes.
SwitchOrganization ==
  /\ \E org \in Organizations :
       /\ org # currentOrganization
       /\ useUnifiedPermissions(org, hasTeamAccess, canManageTeam)
  /\ UNCHANGED createVars

SetTeamAccess ==
  /\ \E t \in StringIds :
       useUnifiedPermissions(currentOrganization,
                             [hasTeamAccess EXCEPT ![t] = ~hasTeamAccess[t]],
                             canManageTeam)
  /\ UNCHANGED createVars

SetTeamManager ==
  /\ \E t \in StringIds :
       useUnifiedPermissions(currentOrganization, hasTeamAccess,
                             [canManageTeam EXCEPT ![t] = ~canManageTeam[t]])
  /\ UNCHANGED createVars

\* Calls on the object returned by the current render.  The calls are
\* synchronous: one is made when no other is being observed, and Return hands
\* its result back.
Unified(method, arg, result) ==
  /\ lastCall = NoCall
  /\ lastCall' = [hook |-> "useUnifiedPermissions", method |-> method,
                  arg |-> arg, result |-> result]
  /\ UNCHANGED <<currentOrganization, hasTeamAccess, canManageTeam, context,
                 organization, equipment, workOrders, teams>>
  /\ UNCHANGED createVars

CallHasRole == \E roles \in RolesArgs : Unified("hasRole", roles, hasRole(roles))

CallIsTeamMember == \E t \in StringIds : Unified("isTeamMember", t, isTeamMember(t))

CallIsTeamManager == \E t \in StringIds : Unified("isTeamManager", t, isTeamManager(t))

CallEquipmentGetPermissions ==
  \E t \in OptTeamIds :
    Unified("equipment.getPermissions", t, equipment_getPermissions(t))

CallWorkOrdersGetPermissions ==
  \E w \in WorkOrderArgs :
    Unified("workOrders.getPermissions", w, workOrders_getPermissions(w))

CallWorkOrdersGetDetailedPermissions ==
  \E w \in WorkOrderArgs :
    Unified("workOrders.getDetailedPermissions", w, workOrders_getDetailedPermissions(w))

CallTeamsGetPermissions ==
  \E t \in OptTeamIds :
    Unified("teams.getPermissions", t, teams_getPermissions(t))

Return ==
  /\ lastCall # NoCall
  /\ lastCall' = NoCall
  /\ UNCHANGED <<currentOrganization, hasTeamAccess, canManageTeam, context,
                 organization, equipment, workOrders, teams>>
  /\ UNCHANGED createVars

\* ============================================ usePermissions (legacy facade)

LegacyTeamMethods == {"canManageTeam", "canViewTeam"}
LegacyEquipmentMethods ==
  {"canManageEquipment", "canViewEquipment", "canUpdateEquipmentStatus"}
LegacyWorkOrderMethods ==
  {"canManageWorkOrder", "canViewWorkOrder", "canAssignWorkOrder",
   "canChangeWorkOrderStatus"}
LegacyNoArgMethods ==
  {"canCreateTeam", "canCreateEquipment", "canCreateWorkOrder",
   "canManageOrganization", "canInviteMembers"}
LegacyMethods ==
  LegacyTeamMethods \cup LegacyEquipmentMethods \cup LegacyWorkOrderMethods
    \cup LegacyNoArgMethods \cup {"hasRole", "isTeamMember", "isTeamManager"}

\* the arguments each legacy method is declared to take
LegacyArgs(method) ==
  CASE method \in LegacyTeamMethods -> StringIds
    [] method \in LegacyEquipmentMethods -> OptTeamIds
    [] method \in LegacyWorkOrderMethods -> WorkOrderArgs
    [] method \in LegacyNoArgMethods -> {Undefined}
    [] method = "hasRole" -> RolesArgs
    [] method \in {"isTeamMember", "isTeamManager"} -> StringIds

\* mutant: canUpdateEquipmentStatus is wired to canView instead of canEdit
usePermissions_statusAsView(method, arg) ==
  CASE method = "canManageTeam" -> teams_getPermissions(arg).canEdit
    [] method = "canViewTeam" -> teams_getPermissions(arg).canView
    [] method = "canCreateTeam" -> teams.canCreateAny
    [] method = "canManageEquipment" -> equipment_getPermissions(arg).canEdit
    [] method = "canViewEquipment" -> equipment_getPermissions(arg).canView
    [] method = "canCreateEquipment" -> equipment.canCreateAny
    [] method = "canUpdateEquipmentStatus" -> equipment_getPermissions(arg).canView
    [] method = "canManageWorkOrder" -> workOrders_getPermissions(arg).canEdit
    [] method = "canViewWorkOrder" -> workOrders_getPermissions(arg).canView
    [] method = "canCreateWorkOrder" -> workOrders.canCreateAny
    [] method = "canAssignWorkOrder" -> workOrders_getPermissions(arg).canAssign
    [] method = "canChangeWorkOrderStatus" -> workOrders_getPermissions(arg).canChangeStatus
    [] method = "canManageOrganization" -> organization.canManage
    [] method = "canInviteMembers" -> organization.canInviteMembers
    [] method = "hasRole" -> hasRole(arg)
    [] method = "isTeamMember" -> isTeamMember(arg)
    [] method = "isTeamManager" -> isTeamManager(arg)

\* The object usePermissions returns, as method name -> result for an argument.
\* `permissions` is the object of the same render; its aggregates are the
\* values that render computed.
usePermissions(method, arg) ==
  CASE method = "canManageTeam" -> teams_getPermissions(arg).canEdit
    [] method = "canViewTeam" -> teams_getPermissions(arg).canView
    [] method = "canCreateTeam" -> teams.canCreateAny
    [] method = "canManageEquipment" -> equipment_getPermissions(arg).canEdit
    [] method = "canViewEquipment" -> equipment_getPermissions(arg).canView
    [] method = "canCreateEquipment" -> equipment.canCreateAny
    [] method = "canUpdateEquipmentStatus" -> equipment_getPermissions(arg).canEdit
    [] method = "canManageWorkOrder" -> workOrders_getPermissions(arg).canEdit
    [] method = "canViewWorkOrder" -> workOrders_getPermissions(arg).canView
    [] method = "canCreateWorkOrder" -> workOrders.canCreateAny
    [] method = "canAssignWorkOrder" -> workOrders_getPermissions(arg).canAssign
    [] method = "canChangeWorkOrderStatus" -> workOrders_getPermissions(arg).canChangeStatus
    [] method = "canManageOrganization" -> organization.canManage
    [] method = "canInviteMembers" -> organization.canInviteMembers
    [] method = "hasRole" -> hasRole(arg)
    [] method = "isTeamMember" -> isTeamMember(arg)
    [] method = "isTeamManager" -> isTeamManager(arg)

useWorkOrderPermissions(workOrder) == workOrders_getPermissions(workOrder)

Legacy(hook, method, arg, result) ==
  /\ lastCall = NoCall
  /\ lastCall' = [hook |-> hook, method |-> method, arg |-> arg, result |-> result]
  /\ UNCHANGED <<currentOrganization, hasTeamAccess, canManageTeam, context,
                 organization, equipment, workOrders, teams>>
  /\ UNCHANGED createVars

CallUsePermissions ==
  \E method \in LegacyMethods :
    \E arg \in LegacyArgs(method) :
      Legacy("usePermissions", method, arg, usePermissions(method, arg))

CallUseWorkOrderPermissions ==
  \E w \in WorkOrderArgs :
    Legacy("useWorkOrderPermissions", "useWorkOrderPermissions", w,
           useWorkOrderPermissions(w))

\* ================================================ useCreateWorkOrderEnhanced

UserId == "user-1"
AssignmentTypes == {Undefined, "team", "member", "admin"}
AssignmentIds == {Undefined, "", "assignee-1"}
ValidDate == "2026-01-15"
DueDates == {Undefined, "", ValidDate, "not-a-date"}
\* team_id of the equipment row found by the lookup
EquipmentTeamIds == {NullValue, "", "team-1"}

WorkOrderDatas ==
  [title : {"Replace belt"}, equipmentId : {"equipment-1"}, priority : {"medium"},
   assignmentType : AssignmentTypes, assignmentId : AssignmentIds, dueDate : DueDates]

NoData == [defined |-> FALSE]
NoResult == [data |-> NullValue, error |-> NullValue]
NoUserData == [user |-> Undefined]

\* new Date(s).toISOString(): an ISO string, or a RangeError for an invalid date
IsValidDate(s) == s = ValidDate
toISOString(s) == s \o "T00:00:00.000Z"

\* effects
InvalidateWorkOrders == "invalidateQueries:work-orders"
InvalidateDashboardStats == "invalidateQueries:dashboard-stats"
ToastSuccess == "toast.success:Work order created successfully"
ToastError == "toast.error:Failed to create work order"
ConsoleError == "console.error:Error creating work order:"
Navigate(id) == "navigate:/work-orders/" \o ToString(id)

\* One render of the hook: currentOrg = getCurrentOrganization().  It may run
\* again while a mutation is in flight; the running mutationFn keeps the
\* currentOrg of the render that created it.
useCreateWorkOrderEnhanced ==
  /\ \E org \in Organizations : currentOrg' = org
  /\ UNCHANGED <<pc, workOrderData, mutationOrg, userData, teamId, assigneeId,
                 insertResult, thrown, work_orders, effects, mutationData, nMutations>>
  /\ UNCHANGED permVars

\* throw inside mutationFn: the mutation goes to onError
Throw(error) ==
  /\ thrown' = error
  /\ pc' = "onError"

\* The row handed to insert(); evaluating it throws when dueDate is not a date.
InsertThrows == Truthy(workOrderData.dueDate) /\ ~IsValidDate(workOrderData.dueDate)

InsertRow(team, assignee) ==
  [organization_id |-> mutationOrg.id,
   created_by |-> userData.user,
   title |-> workOrderData.title,
   equipment_id |-> workOrderData.equipmentId,
   priority |-> workOrderData.priority,
   due_date |-> IF Truthy(workOrderData.dueDate)
                THEN toISOString(workOrderData.dueDate) ELSE NullValue,
   assignee_id |-> assignee,
   team_id |-> team,
   status |-> "submitted"]

\* mutate(workOrderData): mutationFn runs up to its first await.
Mutate ==
  /\ pc \in {"idle", "success", "error"}
  /\ nMutations < MaxMutations
  /\ nMutations' = nMutations + 1
  /\ \E data \in WorkOrderDatas : workOrderData' = data
  /\ mutationOrg' = currentOrg
  /\ userData' = NoUserData
  /\ teamId' = NullValue
  /\ assigneeId' = NullValue
  /\ insertResult' = NoResult
  /\ effects' = <<>>
  /\ mutationData' = NullValue
  /\ IF currentOrg.isNull
     THEN Throw("No current organization")
     ELSE /\ pc' = "awaitGetUser"
          /\ thrown' = NullValue
  /\ UNCHANGED <<currentOrg, work_orders>>
  /\ UNCHANGED permVars

\* from the end of the assignment branches to the await of the insert
StartInsert ==
  IF InsertThrows
  THEN Throw("RangeError: Invalid time value")
  ELSE /\ pc' = "awaitInsert"
       /\ thrown' = NullValue

\* supabase.auth.getUser() settles: with a user, without one, or by rejecting.
GetUserSettles ==
  /\ pc = "awaitGetUser"
  /\ \E outcome \in {"user", "no user", "rejected"} :
       CASE outcome = "rejected" ->
              /\ Throw("getUser rejected")
              /\ UNCHANGED <<userData, teamId, assigneeId>>
         [] outcome = "no user" ->
              /\ userData' = [user |-> NullValue]
              /\ Throw("User not authenticated")
              /\ UNCHANGED <<teamId, assigneeId>>
         [] outcome = "user" ->
              /\ userData' = [user |-> UserId]
              /\ CASE workOrderData.assignmentType = "team"
                        /\ Truthy(workOrderData.assignmentId) ->
                          /\ teamId' = workOrderData.assignmentId
                          /\ assigneeId' = NullValue
                          /\ StartInsert
                   [] workOrderData.assignmentType = "member"
                        /\ Truthy(workOrderData.assignmentId) ->
                          /\ assigneeId' = workOrderData.assignmentId
                          /\ teamId' = NullValue
                          /\ pc' = "awaitEquipment"
                          /\ thrown' = NullValue
                   [] workOrderData.assignmentType = "admin"
                        /\ Truthy(workOrderData.assignmentId) ->
                          /\ assigneeId' = workOrderData.assignmentId
                          /\ teamId' = NullValue
                          /\ StartInsert
                   [] OTHER ->
                          /\ UNCHANGED <<teamId, assigneeId>>
                          /\ StartInsert
  /\ UNCHANGED <<currentOrg, workOrderData, mutationOrg, insertResult, work_orders,
                 effects, mutationData, nMutations>>
  /\ UNCHANGED permVars

\* The equipment lookup settles: no row (data null), or a row with its team_id.
EquipmentLookupSettles ==
  /\ pc = "awaitEquipment"
  /\ \E found \in BOOLEAN, team \in EquipmentTeamIds :
       teamId' = IF found /\ Truthy(team) THEN team ELSE NullValue
  /\ StartInsert
  /\ UNCHANGED <<currentOrg, workOrderData, mutationOrg, userData, assigneeId,
                 insertResult, work_orders, effects, mutationData, nMutations>>
  /\ UNCHANGED permVars

\* mutant: `if (error) throw error` is missing, so a failed insert resolves
InsertSettles_ignoresError ==
  /\ pc = "awaitInsert"
  /\ \E ok \in BOOLEAN :
       IF ok
       THEN LET row == [id |-> Len(work_orders) + 1] @@ InsertRow(teamId, assigneeId)
            IN /\ work_orders' = Append(work_orders, row)
               /\ insertResult' = [data |-> row, error |-> NullValue]
               /\ mutationData' = row
       ELSE /\ insertResult' = [data |-> NullValue, error |-> "insert failed"]
            /\ mutationData' = [id |-> 0]
            /\ UNCHANGED work_orders
  /\ pc' = "onSuccess"
  /\ thrown' = NullValue
  /\ UNCHANGED <<currentOrg, workOrderData, mutationOrg, userData, teamId, assigneeId,
                 effects, nMutations>>
  /\ UNCHANGED permVars

\* The insert settles.  insert().select().single() is one request: it either
\* stores the row and returns it, or stores nothing and returns an error.
InsertSettles ==
  /\ pc = "awaitInsert"
  /\ \E ok \in BOOLEAN :
       IF ok
       THEN LET row == [id |-> Len(work_orders) + 1] @@ InsertRow(teamId, assigneeId)
            IN /\ work_orders' = Append(work_orders, row)
               /\ insertResult' = [data |-> row, error |-> NullValue]
               /\ mutationData' = row
               /\ pc' = "onSuccess"
               /\ thrown' = NullValue
       ELSE /\ insertResult' = [data |-> NullValue, error |-> "insert failed"]
            /\ Throw("insert failed")
            /\ UNCHANGED <<work_orders, mutationData>>
  /\ UNCHANGED <<currentOrg, workOrderData, mutationOrg, userData, teamId, assigneeId,
                 effects, nMutations>>
  /\ UNCHANGED permVars

onSuccess ==
  /\ pc = "onSuccess"
  /\ effects' = effects \o <<InvalidateWorkOrders, InvalidateDashboardStats,
                             ToastSuccess, Navigate(mutationData.id)>>
  /\ pc' = "success"
  /\ UNCHANGED <<currentOrg, workOrderData, mutationOrg, userData, teamId, assigneeId,
                 insertResult, thrown, work_orders, mutationData, nMutations>>
  /\ UNCHANGED permVars

onError ==
  /\ pc = "onError"
  /\ effects' = effects \o <<ConsoleError, ToastError>>
  /\ pc' = "error"
  /\ UNCHANGED <<currentOrg, workOrderData, mutationOrg, userData, teamId, assigneeId,
                 insertResult, thrown, work_orders, mutationData, nMutations>>
  /\ UNCHANGED permVars

\* ============================================================ specifications

Init ==
  /\ currentOrganization = NullOrganization
  /\ hasTeamAccess = [t \in StringIds |-> FALSE]
  /\ canManageTeam = [t \in StringIds |-> FALSE]
  /\ context = PermissionContext(NullOrganization)
  /\ organization = organization_flags
  /\ equipment = equipment_aggregates
  /\ workOrders = workOrders_aggregates
  /\ teams = teams_aggregates
  /\ lastCall = NoCall
  /\ currentOrg = NullOrganization
  /\ pc = "idle"
  /\ workOrderData = NoData
  /\ mutationOrg = NullOrganization
  /\ userData = NoUserData
  /\ teamId = NullValue
  /\ assigneeId = NullValue
  /\ insertResult = NoResult
  /\ thrown = NullValue
  /\ work_orders = <<>>
  /\ effects = <<>>
  /\ mutationData = NullValue
  /\ nMutations = 0

\* the permission hooks
Next ==
  \/ SwitchOrganization
  \/ SetTeamAccess
  \/ SetTeamManager
  \/ Return
  \/ CallHasRole
  \/ CallIsTeamMember
  \/ CallIsTeamManager
  \/ CallEquipmentGetPermissions
  \/ CallWorkOrdersGetPermissions
  \/ CallWorkOrdersGetDetailedPermissions
  \/ CallTeamsGetPermissions
  \/ CallUsePermissions
  \/ CallUseWorkOrderPermissions

Spec == Init /\ [][Next]_vars

\* the create-work-order mutation
NextCreate ==
  \/ useCreateWorkOrderEnhanced
  \/ Mutate
  \/ GetUserSettles
  \/ EquipmentLookupSettles
  \/ InsertSettles
  \/ onSuccess
  \/ onError

SpecCreate == Init /\ [][NextCreate]_vars

\* ==================================================================== claims

\* what the session says, read directly from it
ActiveOrganization == ~currentOrganization.isNull
RoleIn(roles) == ActiveOrganization /\ currentOrganization.userRole \in roles
OrgAdminRole == RoleIn({"owner", "admin"})
\* the user manages / has access to the team with this id, when the id is set
Manages(t) == Truthy(t) /\ canManageTeam[t]
Accesses(t) == Truthy(t) /\ hasTeamAccess[t]

Made(hook, method) == lastCall.hook = hook /\ lastCall.method = method
MadeUnified(method) == Made("useUnifiedPermissions", method)
AllFalse(r) == \A f \in DOMAIN r : r[f] = FALSE

\* C1 -- fail-closed: with no organization selected, whatever the team
\* predicates and the entity's team binding are, hasRole returns false and
\* every organization flag, every aggregate and every field of every result of
\* equipment / workOrders / teams getPermissions and of getDetailedPermissions
\* is false.
C1_FailClosed ==
  currentOrganization.isNull =>
    /\ AllFalse(organization)
    /\ AllFalse(equipment)
    /\ AllFalse(workOrders)
    /\ AllFalse(teams)
    /\ MadeUnified("hasRole") => lastCall.result = FALSE
    /\ \A m \in {"equipment.getPermissions", "workOrders.getPermissions",
                 "teams.getPermissions", "workOrders.getDetailedPermissions"} :
         MadeUnified(m) => AllFalse(lastCall.result)

\* a denial that the team predicates alone would have turned into a grant
C1_Witness ==
  /\ currentOrganization.isNull
  /\ MadeUnified("equipment.getPermissions")
  /\ Accesses(lastCall.arg)
  /\ Manages(lastCall.arg)
  /\ AllFalse(lastCall.result)

\* C2 -- with an organization selected and a role among owner, admin, member,
\* viewer: hasRole(R) is true iff the role is in R (a single role or a set);
\* isOrgAdmin iff the role is owner or admin; isOrgMember iff it is owner,
\* admin or member; isOrgAdmin implies isOrgMember; and the four organization
\* flags all equal isOrgAdmin.
C2_RolePredicates ==
  (ActiveOrganization /\ currentOrganization.userRole \in Roles) =>
    LET role == currentOrganization.userRole
        admin == role \in {"owner", "admin"}
    IN /\ MadeUnified("hasRole") =>
            lastCall.result = IF lastCall.arg.isArray
                              THEN role \in lastCall.arg.items
                              ELSE role = lastCall.arg.item
       /\ isOrgAdmin = admin
       /\ isOrgMember = (role \in {"owner", "admin", "member"})
       /\ isOrgAdmin => isOrgMember
       /\ organization.canManage = admin
       /\ organization.canInviteMembers = admin
       /\ organization.canCreateTeams = admin
       /\ organization.canViewBilling = admin

C2_Witness ==
  /\ RoleIn({"owner"})
  /\ MadeUnified("hasRole")
  /\ lastCall.arg.isArray
  /\ lastCall.arg.items = {"owner", "viewer"}
  /\ lastCall.result = TRUE
  /\ organization.canViewBilling

\* C3 -- status asymmetry: with an organization selected, for a work order
\* bound to a team the user has access to, workOrders.getPermissions returns
\* canChangeStatus = true whatever the role and the manager flag; and when the
\* user is neither org admin nor manager of that team, the same result has
\* canView = true, canEdit = false and canAssign = false.
C3_StatusAsymmetry ==
  (/\ ActiveOrganization
   /\ MadeUnified("workOrders.getPermissions")
   /\ Accesses(WorkOrderTeamId(lastCall.arg))) =>
    /\ lastCall.result.canChangeStatus
    /\ (~OrgAdminRole /\ ~Manages(WorkOrderTeamId(lastCall.arg))) =>
         /\ lastCall.result.canView
         /\ ~lastCall.result.canEdit
         /\ ~lastCall.result.canAssign

C3_Witness ==
  /\ RoleIn({"viewer"})
  /\ MadeUnified("workOrders.getPermissions")
  /\ Accesses(WorkOrderTeamId(lastCall.arg))
  /\ ~Manages(WorkOrderTeamId(lastCall.arg))
  /\ lastCall.result.canChangeStatus
  /\ ~lastCall.result.canEdit

\* C4 -- with an organization selected, equipment.getPermissions(teamId) and
\* teams.getPermissions(teamId) return canEdit = (org admin, or the team id is
\* set and the user manages that team), and canCreate = canDelete = org admin.
C4_EquipmentTeamEdit ==
  ActiveOrganization =>
    \A m \in {"equipment.getPermissions", "teams.getPermissions"} :
      MadeUnified(m) =>
        /\ lastCall.result.canEdit = (OrgAdminRole \/ Manages(lastCall.arg))
        /\ lastCall.result.canCreate = OrgAdminRole
        /\ lastCall.result.canDelete = OrgAdminRole

\* a non-admin who manages the team may edit it, and may not create or delete
C4_Witness ==
  /\ RoleIn({"member"})
  /\ MadeUnified("teams.getPermissions")
  /\ Manages(lastCall.arg)
  /\ ~Accesses(lastCall.arg)
  /\ lastCall.result.canEdit
  /\ ~lastCall.result.canDelete

\* C5 -- with an organization selected, getDetailedPermissions returns
\* canEdit = canEditPriority = canEditAssignment = (org admin or manager of
\* the work order's team) and canEditDueDate = canEditDescription =
\* canChangeStatus = canAddNotes = canAddImages = (org admin or manager of or
\* access to the work order's team); no team binding means neither.
C5_DetailedPermissions ==
  (ActiveOrganization /\ MadeUnified("workOrders.getDetailedPermissions")) =>
    LET t == WorkOrderTeamId(lastCall.arg)
        r == lastCall.result
        strict == OrgAdminRole \/ Manages(t)
        loose == OrgAdminRole \/ Manages(t) \/ Accesses(t)
    IN /\ r.canEdit = strict
       /\ r.canEditPriority = strict
       /\ r.canEditAssignment = strict
       /\ r.canEditDueDate = loose
       /\ r.canEditDescription = loose
       /\ r.canChangeStatus = loose
       /\ r.canAddNotes = loose
       /\ r.canAddImages = loose

C5_Witness ==
  /\ RoleIn({"viewer"})
  /\ MadeUnified("workOrders.getDetailedPermissions")
  /\ Accesses(WorkOrderTeamId(lastCall.arg))
  /\ ~Manages(WorkOrderTeamId(lastCall.arg))
  /\ ~lastCall.result.canEdit
  /\ lastCall.result.canEditDueDate

\* C6 -- the legacy facade adds no logic: whatever the session, each legacy
\* method returns the unified decision it renames, and
\* useWorkOrderPermissions(w) equals workOrders.getPermissions(w).
C6_LegacyFacade ==
  LET a == lastCall.arg
      r == lastCall.result
      L(method) == Made("usePermissions", method)
  IN /\ L("canManageTeam") => r = teams_getPermissions(a).canEdit
     /\ L("canViewTeam") => r = teams_getPermissions(a).canView
     /\ L("canCreateTeam") => r = teams.canCreateAny
     /\ L("canManageEquipment") => r = equipment_getPermissions(a).canEdit
     /\ L("canUpdateEquipmentStatus") => r = equipment_getPermissions(a).canEdit
     /\ L("canViewEquipment") => r = equipment_getPermissions(a).canView
     /\ L("canCreateEquipment") => r = equipment.canCreateAny
     /\ L("canManageWorkOrder") => r = workOrders_getPermissions(a).canEdit
     /\ L("canViewWorkOrder") => r = workOrders_getPermissions(a).canView
     /\ L("canAssignWorkOrder") => r = workOrders_getPermissions(a).canAssign
     /\ L("canChangeWorkOrderStatus") => r = workOrders_getPermissions(a).canChangeStatus
     /\ L("canCreateWorkOrder") => r = workOrders.canCreateAny
     /\ L("canManageOrganization") => r = organization.canManage
     /\ L("canInviteMembers") => r = organization.canInviteMembers
     /\ Made("useWorkOrderPermissions", "useWorkOrderPermissions") =>
          r = workOrders_getPermissions(a)

\* a legacy answer in a session where canEdit and canView differ
C6_Witness ==
  /\ RoleIn({"member"})
  /\ Made("usePermissions", "canUpdateEquipmentStatus")
  /\ lastCall.result = FALSE
  /\ equipment_getPermissions(lastCall.arg).canView

\* C7 -- canChangeStatus is looser than canEdit: whenever
\* workOrders.getPermissions returns canEdit = true, it returns
\* canChangeStatus = true as well.
C7_EditImpliesChangeStatus ==
  MadeUnified("workOrders.getPermissions") =>
    (lastCall.result.canEdit => lastCall.result.canChangeStatus)

\* C8 -- write implies read: whenever getPermissions of equipment, work orders
\* or teams returns canEdit, canDelete, canCreate, canAssign or
\* canChangeStatus as true, it returns canView as true.
C8_WriteImpliesView ==
  \A m \in {"equipment.getPermissions", "workOrders.getPermissions",
            "teams.getPermissions"} :
    MadeUnified(m) =>
      LET r == lastCall.result
          writes == {"canEdit", "canDelete", "canCreate", "canAssign", "canChangeStatus"}
      IN (\E f \in writes \cap DOMAIN r : r[f]) => r.canView

\* C9 -- the two work-order views agree: canEdit, canChangeStatus,
\* canAddNotes and canAddImages have the same value in the results of
\* getPermissions and getDetailedPermissions for the same work order.
C9_ViewsAgree ==
  MadeUnified("workOrders.getPermissions") =>
    LET d == workOrders_getDetailedPermissions(lastCall.arg)
    IN \A f \in {"canEdit", "canChangeStatus", "canAddNotes", "canAddImages"} :
         lastCall.result[f] = d[f]

\* C10 -- in the create-work-order mutation, a row is inserted only after both
\* guards passed (an organization was captured and getUser returned a user);
\* the success effects happen only after an insert that returned no error;
\* and when a guard fails or the insert returns an error, no row is reported
\* as created, no success effect happens and the error toast is shown.
SuccessEffects(id) ==
  <<InvalidateWorkOrders, InvalidateDashboardStats, ToastSuccess, Navigate(id)>>
HasSuccessEffect(log) ==
  \E i \in DOMAIN log :
    \/ log[i] \in {InvalidateWorkOrders, InvalidateDashboardStats, ToastSuccess}
    \/ \E id \in 0..MaxMutations + 1 : log[i] = Navigate(id)
GuardFailed == mutationOrg.isNull \/ userData.user = NullValue
InsertFailed == insertResult.error # NullValue

C10_CreateWorkOrder ==
  [][/\ work_orders' # work_orders =>
          /\ ~mutationOrg.isNull
          /\ userData.user = UserId
          /\ Len(work_orders') = Len(work_orders) + 1
          /\ work_orders'[Len(work_orders')].organization_id = mutationOrg.id
          /\ work_orders'[Len(work_orders')].created_by = UserId
     /\ effects' # effects /\ HasSuccessEffect(effects') =>
          /\ insertResult.error = NullValue
          /\ insertResult.data = work_orders[Len(work_orders)]
          /\ effects' = SuccessEffects(insertResult.data.id)
     /\ (pc' # "idle" /\ (GuardFailed' \/ InsertFailed')) =>
          /\ pc' \in {"onError", "error"}
          /\ mutationData' = NullValue
          /\ ~HasSuccessEffect(effects')
          /\ work_orders' = work_orders
          /\ pc' = "error" => effects' = <<ConsoleError, ToastError>>
    ]_vars

\* a mutation that succeeded, then one whose insert returned an error
C10_Witness ==
  /\ pc = "error"
  /\ insertResult.error # NullValue
  /\ ~mutationOrg.isNull
  /\ userData.user = UserId
  /\ Len(work_orders) = 1
  /\ effects = <<ConsoleError, ToastError>>
====
